---- MODULE Spec2Model ----
(***************************************************************************)
(* Model of ns1-dynamic-dns (src/main.go): one run of main() walks the     *)
(* configured domains, their hosts and their subdomains, and for each      *)
(* subdomain reads the "A" record from the DNS provider and creates or     *)
(* updates it.  cron starts the program again after each run.              *)
(*                                                                         *)
(* Go values are modelled with their Go distinctions kept:                 *)
(*   []string        [isNil, elems]        (a nil slice and an empty one)  *)
(*   interface{}     [kind, s, items]      (what encoding/json decodes)    *)
(*   Meta.Up         "true" | "false" | "nil"  (interface{}: bool or unset)*)
(***************************************************************************)
EXTENDS Naturals, Sequences, FiniteSets

VARIABLES
    config,       \* Config: domain name -> DomainConfig (read-only once loaded)
    faults,       \* environment: may upstream calls fail?
    hostIPs,      \* environment: the addresses a host may currently have
    zoneRecords,  \* the provider's "A" record of every managed name
    pc,           \* where main() is: idle, domains, hosts, subdomains, done, crashed, fatal
    pending,      \* domains the range over config has not visited yet
    curDomain,    \* the domain of the current iteration
    countries,    \* dConf.AllowedCountries of the current domain, defaulted
    hostIdx,      \* index into dConf.Hosts
    myIP,         \* the current host's resolved address
    subIdx,       \* index into host.Subdomains
    log,          \* what this run has done so far (calls issued, per key)
    last,         \* the most recent processSubdomain call, as observed
    prev          \* the processSubdomain call before it

vars == <<config, faults, hostIPs, zoneRecords, pc, pending, curDomain,
          countries, hostIdx, myIP, subIdx, log, last, prev>>

(***************************************************************************)
(* Bounds                                                                  *)
(***************************************************************************)
\* the most answers a provider record holds in the model
MaxAnswers == 1

IPs == {"203.0.113.5", "198.51.100.1"}

\* country lists a domain may configure (the empty one is defaulted by main)
ConfiguredCountries == {<<>>, <<"US", "CA">>, <<"DE">>}

(***************************************************************************)
(* Go values                                                               *)
(***************************************************************************)
NilSlice == [isNil |-> TRUE, elems |-> <<>>]

Slice(s) == [isNil |-> FALSE, elems |-> s]

AnyNil == [kind |-> "nil", s |-> "", items |-> <<>>]

AnyString(v) == [kind |-> "string", s |-> v, items |-> <<>>]

AnySlice(its) == [kind |-> "slice", s |-> "", items |-> its]

Str(v) == [str |-> TRUE, v |-> v]

Num(v) == [str |-> FALSE, v |-> v]

StrItems(s) == [i \in 1..Len(s) |-> Str(s[i])]

\* ns1model.Answer as read from the provider
Answer(rdata, hasMeta, up, country) ==
    [rdata |-> rdata, hasMeta |-> hasMeta, up |-> up, country |-> country]

NoRecord == [exists |-> FALSE, answers |-> <<>>]

Record(answers) == [exists |-> TRUE, answers |-> answers]

\* the answer the program builds: Rdata, Meta.Up, Meta.Country ([]string or unset)
NoAnswer == [rdata |-> <<>>, up |-> FALSE, hasCountry |-> FALSE, country |-> NilSlice]

BuiltAnswer(rdata, hasCountry, country) ==
    [rdata |-> rdata, up |-> TRUE, hasCountry |-> hasCountry, country |-> country]

(***************************************************************************)
(* Pure functions of main.go                                               *)
(***************************************************************************)
fullSubdomain(coreDomain, subdomain) ==
    IF subdomain = "@" THEN <<coreDomain>> ELSE <<subdomain, coreDomain>>

sliceFromInterface(i) ==
    IF i.kind = "slice"
    THEN IF \E idx \in 1..Len(i.items) : ~i.items[idx].str
         THEN [val |-> Slice(<<>>), err |-> TRUE]
         ELSE [val |-> Slice([idx \in 1..Len(i.items) |-> i.items[idx].v]),
               err |-> FALSE]
    ELSE [val |-> Slice(<<>>), err |-> TRUE]

\* slices.Equal: same length and equal elements; nil and empty compare equal
slicesEqual(a, b) ==
    /\ Len(a.elems) = Len(b.elems)
    /\ \A i \in 1..Len(a.elems) : a.elems[i] = b.elems[i]

checkIP(ip, record) ==
    IF Len(record.answers) = 0 THEN FALSE
    ELSE IF Len(record.answers[1].rdata) = 0 THEN FALSE
    ELSE ip = record.answers[1].rdata[1]

\* processAnswer with the "UP differs" branch taking the desired list
processAnswerUpTakesDesired(answer, desired) ==
    IF ~answer.hasMeta
    THEN [shouldUpdate |-> TRUE, countriesToUse |-> desired]
    ELSE LET conv == sliceFromInterface(answer.country)
             countryMeta == conv.val
             differs == conv.err \/ ~slicesEqual(countryMeta, desired)
         IN  [shouldUpdate |-> differs \/ answer.up # "true",
              countriesToUse |-> IF differs \/ answer.up # "true"
                                 THEN desired ELSE NilSlice]

\* processAnswer with the "Allowed Countries differs" branch keeping the stored list
processAnswerKeepsStored(answer, desired) ==
    IF ~answer.hasMeta
    THEN [shouldUpdate |-> TRUE, countriesToUse |-> desired]
    ELSE LET conv == sliceFromInterface(answer.country)
             countryMeta == conv.val
             differs == conv.err \/ ~slicesEqual(countryMeta, desired)
         IN  [shouldUpdate |-> differs \/ answer.up # "true",
              countriesToUse |-> IF differs \/ answer.up # "true"
                                 THEN countryMeta ELSE NilSlice]

processAnswer(answer, desired) ==
    IF ~answer.hasMeta
    THEN [shouldUpdate |-> TRUE, countriesToUse |-> desired]
    ELSE LET conv == sliceFromInterface(answer.country)
             countryMeta == conv.val
             s0 == [shouldUpdate |-> FALSE, countriesToUse |-> NilSlice]
             s1 == IF conv.err
                   THEN [shouldUpdate |-> TRUE, countriesToUse |-> desired]
                   ELSE s0
             s2 == IF ~slicesEqual(countryMeta, desired)
                   THEN [shouldUpdate |-> TRUE, countriesToUse |-> desired]
                   ELSE s1
             s3 == IF answer.up # "true"
                   THEN [shouldUpdate |-> TRUE, countriesToUse |-> countryMeta]
                   ELSE s2
         IN  s3

\* createRecord building its answer without the country list
createRecordAnswerNoCountries(newIP, allowedCountries) ==
    BuiltAnswer(<<newIP>>, FALSE, NilSlice)

\* the answer createRecord builds (main.go: Country only when the list is non-empty)
createRecordAnswer(newIP, allowedCountries) ==
    IF Len(allowedCountries.elems) > 0
    THEN BuiltAnswer(<<newIP>>, TRUE, allowedCountries)
    ELSE BuiltAnswer(<<newIP>>, FALSE, NilSlice)

\* the call issued whatever the test flag says
callForIgnoringTest(op, test) == op

\* the mutating call a decision leads to: none in test mode
callFor(op, test) == IF ~test THEN op ELSE "none"

\* processSubdomain up to its provider write.  getErr: Records.Get returned an
\* error (of any kind).  panic: record.Answers[0] on a record without answers.
processSubdomainPlan(getErr, record, currentIP, desired, test) ==
    IF getErr
    THEN [panic |-> FALSE, decision |-> "Create",
          call |-> callFor("create", test),
          answer |-> IF ~test THEN createRecordAnswer(currentIP, desired) ELSE NoAnswer,
          report |-> IF test THEN "would create" ELSE "none"]
    ELSE LET ipMatches == checkIP(currentIP, record)
         IN  IF Len(record.answers) = 0
             THEN [panic |-> TRUE, decision |-> "Panic", call |-> "none",
                   answer |-> NoAnswer, report |-> "none"]
             ELSE LET pa == processAnswer(record.answers[1], desired)
                      shouldUpdate == ~ipMatches \/ pa.shouldUpdate
                  IN  IF shouldUpdate
                      THEN [panic |-> FALSE, decision |-> "Update",
                            call |-> callFor("update", test),
                            answer |-> BuiltAnswer(<<currentIP>>, TRUE, pa.countriesToUse),
                            report |-> IF test THEN "would update" ELSE "none"]
                      ELSE [panic |-> FALSE, decision |-> "NoOp", call |-> "none",
                            answer |-> NoAnswer, report |-> "none"]

(***************************************************************************)
(* The provider (NS1), as the client calls of main.go see it               *)
(***************************************************************************)
\* Meta.Country as the provider returns it after a write: the []string went
\* out as JSON (nil -> null, empty -> []), and comes back decoded into
\* interface{}; an empty list is kept or dropped.
storedCountry(built) ==
    IF ~built.hasCountry \/ built.country.isNil THEN {AnyNil}
    ELSE IF Len(built.country.elems) = 0 THEN {AnySlice(<<>>), AnyNil}
    ELSE {AnySlice(StrItems(built.country.elems))}

storedAnswers(built) ==
    {Answer(built.rdata, TRUE, "true", c) : c \in storedCountry(built)}

\* how a provider call may end
callOutcomes == IF faults THEN {"ok", "error"} ELSE {"ok"}

\* Records.Create: rejected when the name already has a record
createApplies(w, stored) == w = "ok" /\ ~stored.exists

\* Records.Update
updateApplies(w, stored) == w = "ok"

\* the provider's record of the name after the plan's call ended as w
recordsAfter(plan, w, stored) ==
    IF plan.call = "create" /\ createApplies(w, stored)
    THEN {Record(<<a>>) : a \in storedAnswers(plan.answer)}
    ELSE IF plan.call = "update" /\ updateApplies(w, stored)
    THEN {Record(<<a>>) : a \in storedAnswers(plan.answer)}
    ELSE {stored}

callSucceeded(plan, w, stored) ==
    \/ plan.call = "create" /\ createApplies(w, stored)
    \/ plan.call = "update" /\ updateApplies(w, stored)

(***************************************************************************)
(* IP resolution                                                           *)
(***************************************************************************)
ipError == [err |-> TRUE, ip |-> ""]

ipOK(a) == [err |-> FALSE, ip |-> a]

\* the IPv4 lists GetInstance may return
instanceLists ==
    (IF faults THEN {<<>>} ELSE {})
        \cup {<<a>> : a \in hostIPs}
        \cup {<<a, b>> : a \in hostIPs, b \in IPs}

linodeAPICheck ==
    (IF faults THEN {ipError} ELSE {})
        \cup {IF Len(ips) < 1 THEN ipError ELSE ipOK(ips[1]) : ips \in instanceLists}

externalWAN ==
    (IF faults THEN {ipError} ELSE {}) \cup {ipOK(a) : a \in hostIPs}

getIP(host) ==
    CASE host.Method = "LinodeAPI" -> linodeAPICheck
      [] host.Method = "external" -> externalWAN
      [] OTHER -> {ipError}

(***************************************************************************)
(* Configurations and provider contents the model starts from              *)
(***************************************************************************)
DefaultCountries == <<"US", "CA">>

Host(name, method, subdomains) ==
    [Name |-> name, Method |-> method, Subdomains |-> subdomains]

DomainConfig(test, allowed, hosts) ==
    [Test |-> test, AllowedCountries |-> allowed, Hosts |-> hosts]

\* one domain, one host, one subdomain
SingleConfig(test, allowed, method) ==
    [d \in {"example.com"} |->
        DomainConfig(test, allowed, <<Host("home", method, <<"www">>)>>)]

\* two domains; a host with two subdomains, a sibling host, a host whose
\* method is unknown
TopologyConfig(test1, test2) ==
    [d \in {"example.com", "example.org"} |->
        IF d = "example.com"
        THEN DomainConfig(test1, <<>>,
                 <<Host("web", "LinodeAPI", <<"@", "www">>),
                   Host("home", "external", <<"home">>)>>)
        ELSE DomainConfig(test2, <<"DE">>,
                 <<Host("legacy", "dhcp", <<"old">>),
                   Host("vpn", "external", <<"vpn">>)>>)]

HostNames(cfg, d, h) ==
    {fullSubdomain(d, cfg[d].Hosts[h].Subdomains[i]) :
        i \in 1..Len(cfg[d].Hosts[h].Subdomains)}

DomainNames(cfg, d) ==
    UNION {HostNames(cfg, d, h) : h \in 1..Len(cfg[d].Hosts)}

Names(cfg) == UNION {DomainNames(cfg, d) : d \in DOMAIN cfg}

Rdatas == {<<>>} \cup {<<a>> : a \in IPs}

UpValues == {"true", "false", "nil"}

CountryValues ==
    {AnyNil, AnyString("US"), AnySlice(<<>>),
     AnySlice(StrItems(<<"US", "CA">>)), AnySlice(StrItems(<<"CA", "US">>)),
     AnySlice(StrItems(<<"DE">>)), AnySlice(<<Str("US"), Num("840")>>)}

Answers ==
    {Answer(r, FALSE, "nil", AnyNil) : r \in Rdatas}
        \cup {Answer(r, TRUE, u, c) : r \in Rdatas, u \in UpValues, c \in CountryValues}

\* an answer after the first one: the program never reads it
OtherAnswer == Answer(<<"192.0.2.77">>, FALSE, "nil", AnyNil)

Padding(k) == [i \in 1..k |-> OtherAnswer]

ProviderRecords ==
    {NoRecord, Record(<<>>)}
        \cup {Record(<<a>> \o Padding(k)) : a \in Answers, k \in 0..(MaxAnswers - 1)}

\* a few representative records for the multi-domain configuration
SmallRecords == {NoRecord, Record(<<>>)}

NoCall ==
    [valid |-> FALSE, name |-> <<>>, ip |-> "", countries |-> <<>>, test |-> FALSE,
     getErr |-> "none", before |-> NoRecord, decision |-> "None",
     answer |-> NoAnswer, calls |-> <<>>, ok |-> FALSE, report |-> "none",
     after |-> NoRecord]

Event(ev, key, ok) == [ev |-> ev, key |-> key, ok |-> ok]

InitProgram ==
    /\ pc = "idle"
    /\ pending = {}
    /\ curDomain = ""
    /\ countries = NilSlice
    /\ hostIdx = 0
    /\ myIP = ""
    /\ subIdx = 0
    /\ log = {}
    /\ last = NoCall
    /\ prev = NoCall

InitSingle ==
    /\ \E t \in BOOLEAN, a \in ConfiguredCountries :
           config = SingleConfig(t, a, "external")
    /\ faults = TRUE
    /\ hostIPs = IPs
    /\ zoneRecords \in [Names(config) -> ProviderRecords]
    /\ InitProgram

InitTopology ==
    /\ \E t \in BOOLEAN : config = TopologyConfig(FALSE, t)
    /\ faults = TRUE
    /\ hostIPs = {"203.0.113.5"}
    /\ zoneRecords \in [Names(config) -> SmallRecords]
    /\ InitProgram

Init == InitSingle

\* fixed address, test mode off, every upstream call succeeds, and the name
\* has no record or a record with at least one answer
InitConv ==
    /\ \E a \in ConfiguredCountries, m \in {"external", "LinodeAPI"} :
           config = SingleConfig(FALSE, a, m)
    /\ faults = FALSE
    /\ \E a \in IPs : hostIPs = {a}
    /\ zoneRecords \in [Names(config) -> ProviderRecords \ {Record(<<>>)}]
    /\ InitProgram

(***************************************************************************)
(* main()                                                                  *)
(***************************************************************************)
\* getConfig: the file is read, or log.Fatalf ends the process
configOutcomes == IF faults THEN {"ok", "unreadable"} ELSE {"ok"}

\* cron starts the program
StartRun ==
    /\ pc \in {"idle", "done", "crashed", "fatal"}
    /\ \E c \in configOutcomes :
          /\ pc' = IF c = "ok" THEN "domains" ELSE "fatal"
          /\ pending' = IF c = "ok" THEN DOMAIN config ELSE {}
    /\ log' = {}
    /\ UNCHANGED <<config, faults, hostIPs, zoneRecords, curDomain, countries,
                   hostIdx, myIP, subIdx, last, prev>>

\* dConf.AllowedCountries after the default is applied
allowedCountries(dConf) ==
    IF Len(dConf.AllowedCountries) = 0
    THEN Slice(DefaultCountries)
    ELSE Slice(dConf.AllowedCountries)

\* one iteration of the range over config, up to its hosts loop: Zones.Get
NextDomain ==
    /\ pc = "domains"
    /\ pending # {}
    /\ \E d \in pending, z \in callOutcomes :
          /\ pending' = pending \ {d}
          /\ curDomain' = d
          /\ countries' = allowedCountries(config[d])
          /\ log' = log \cup {Event("zone", <<d>>, z = "ok")}
          /\ pc' = IF z = "ok" THEN "hosts" ELSE "domains"
          /\ hostIdx' = IF z = "ok" THEN 1 ELSE hostIdx
    /\ UNCHANGED <<config, faults, hostIPs, zoneRecords, myIP, subIdx, last, prev>>

\* the range over config is exhausted: "DNS update completed"
FinishRun ==
    /\ pc = "domains"
    /\ pending = {}
    /\ pc' = "done"
    /\ UNCHANGED <<config, faults, hostIPs, zoneRecords, pending, curDomain,
                   countries, hostIdx, myIP, subIdx, log, last, prev>>

\* one iteration of the hosts loop, up to its subdomains loop: getIP
NextHost ==
    /\ pc = "hosts"
    /\ hostIdx <= Len(config[curDomain].Hosts)
    /\ LET host == config[curDomain].Hosts[hostIdx]
       IN  \E r \in getIP(host) :
              /\ log' = log \cup {Event("ip", <<host.Name, curDomain>>, ~r.err)}
              /\ pc' = IF r.err THEN "hosts" ELSE "subdomains"
              /\ hostIdx' = IF r.err THEN hostIdx + 1 ELSE hostIdx
              /\ myIP' = IF r.err THEN myIP ELSE r.ip
              /\ subIdx' = IF r.err THEN subIdx ELSE 1
    /\ UNCHANGED <<config, faults, hostIPs, zoneRecords, pending, curDomain,
                   countries, last, prev>>

\* the hosts loop of the domain is exhausted
EndHosts ==
    /\ pc = "hosts"
    /\ hostIdx > Len(config[curDomain].Hosts)
    /\ pc' = "domains"
    /\ UNCHANGED <<config, faults, hostIPs, zoneRecords, pending, curDomain,
                   countries, hostIdx, myIP, subIdx, log, last, prev>>

\* one iteration of the subdomains loop: processSubdomain, then the delay
ProcessSubdomain ==
    /\ pc = "subdomains"
    /\ subIdx <= Len(config[curDomain].Hosts[hostIdx].Subdomains)
    /\ LET host == config[curDomain].Hosts[hostIdx]
           name == fullSubdomain(curDomain, host.Subdomains[subIdx])
           stored == zoneRecords[name]
           test == config[curDomain].Test
       IN  \E g \in callOutcomes, w \in callOutcomes :
              LET getErr == IF g # "ok" THEN "transport"
                            ELSE IF ~stored.exists THEN "notfound" ELSE "none"
                  plan == processSubdomainPlan(getErr # "none", stored, myIP,
                                               countries, test)
                  ok == callSucceeded(plan, w, stored)
              IN  \E after \in recordsAfter(plan, w, stored) :
                     /\ zoneRecords' = [zoneRecords EXCEPT ![name] = after]
                     /\ pc' = IF plan.panic THEN "crashed" ELSE "subdomains"
                     /\ subIdx' = IF plan.panic THEN subIdx ELSE subIdx + 1
                     /\ log' = log \cup {Event("get", name, g = "ok")}
                                   \cup (IF plan.call = "none" THEN {}
                                         ELSE {Event(plan.call, name, ok)})
                     /\ prev' = last
                     /\ last' = [valid |-> TRUE, name |-> name, ip |-> myIP,
                                 countries |-> countries.elems, test |-> test,
                                 getErr |-> getErr, before |-> stored,
                                 decision |-> plan.decision, answer |-> plan.answer,
                                 calls |-> IF plan.call = "none" THEN <<>>
                                           ELSE <<plan.call>>,
                                 ok |-> ok,
                                 report |-> IF plan.call = "none" THEN plan.report
                                            ELSE IF ~ok THEN "failed"
                                            ELSE IF plan.call = "create" THEN "created"
                                            ELSE "updated",
                                 after |-> after]
    /\ UNCHANGED <<config, faults, hostIPs, pending, curDomain, countries,
                   hostIdx, myIP>>

\* the subdomains loop of the host is exhausted
EndSubdomains ==
    /\ pc = "subdomains"
    /\ subIdx > Len(config[curDomain].Hosts[hostIdx].Subdomains)
    /\ pc' = "hosts"
    /\ hostIdx' = hostIdx + 1
    /\ UNCHANGED <<config, faults, hostIPs, zoneRecords, pending, curDomain,
                   countries, myIP, subIdx, log, last, prev>>

Next ==
    \/ StartRun
    \/ NextDomain
    \/ FinishRun
    \/ NextHost
    \/ EndHosts
    \/ ProcessSubdomain
    \/ EndSubdomains

Spec == Init /\ [][Next]_vars

\* the multi-domain configuration
SpecRun == InitTopology /\ [][Next]_vars

\* repeated runs in a quiet environment
SpecConv == InitConv /\ [][Next]_vars

(***************************************************************************)
(* Properties                                                              *)
(***************************************************************************)
SeqSet(s) == {s[i] : i \in 1..Len(s)}

\* the call read a record (Records.Get returned no error)
Found(c) == c.valid /\ c.getErr = "none"

\* ... and the record has a first answer
HasAnswer(c) == Found(c) /\ Len(c.before.answers) >= 1

First(c) == c.before.answers[1]

\* the stored country data is a list of strings
WellFormed(a) ==
    /\ a.hasMeta
    /\ a.country.kind = "slice"
    /\ \A i \in 1..Len(a.country.items) : a.country.items[i].str

Malformed(a) == a.hasMeta /\ ~WellFormed(a)

StoredElems(a) == [i \in 1..Len(a.country.items) |-> a.country.items[i].v]

Stale(c) ==
    /\ HasAnswer(c)
    /\ Len(First(c).rdata) >= 1
    /\ First(c).rdata[1] # c.ip

IPMatches(c) ==
    /\ HasAnswer(c)
    /\ Len(First(c).rdata) >= 1
    /\ First(c).rdata[1] = c.ip

Mutations(name) == {e \in log : e.ev \in {"create", "update"} /\ e.key = name}

\* C1: a record with zero answers is decided as Update (rdata = [currentIP],
\* up = true) and never crashes the run.
ZeroAnswersNeverCrash ==
    (Found(last) /\ Len(last.before.answers) = 0)
        => /\ last.decision = "Update"
           /\ last.answer.rdata = <<last.ip>>
           /\ last.answer.up
           /\ pc # "crashed"

\* C2: a stale IP on a record whose metadata already matches the policy
\* (up = true, countries equal to desired) is updated with countries = desired.
StaleIPUpdateCarriesDesired ==
    (/\ Stale(last)
     /\ WellFormed(First(last))
     /\ First(last).up = "true"
     /\ StoredElems(First(last)) = last.countries)
        => /\ last.decision = "Update"
           /\ last.answer.rdata = <<last.ip>>
           /\ last.answer.up
           /\ last.answer.country.elems = last.countries

\* C3: only a not-found lookup leads to a create; a lookup that failed in
\* transport issues no create or update call.
TransportFailureIssuesNoWrite ==
    last.valid
        => /\ last.getErr = "transport" => last.calls = <<>>
           /\ "create" \in SeqSet(last.calls) => last.getErr = "notfound"

\* C4: IP matches, up = true and the stored countries equal the desired ones
\* as a set: NoOp, no update call and no "would update".
SetEqualCountriesIsNoOp ==
    (/\ IPMatches(last)
     /\ WellFormed(First(last))
     /\ First(last).up = "true"
     /\ SeqSet(StoredElems(First(last))) = SeqSet(last.countries))
        => /\ last.decision = "NoOp"
           /\ last.calls = <<>>
           /\ last.report = "none"

\* C5: a Create or Update decision issues no mutating call in test mode and
\* exactly one (its own kind, no second attempt) otherwise; NoOp issues none.
DryRunLaw ==
    last.valid
        => /\ Len(last.calls) <= 1
           /\ (last.test /\ last.decision \in {"Create", "Update"})
                  => last.calls = <<>>
           /\ (~last.test /\ last.decision = "Create") => last.calls = <<"create">>
           /\ (~last.test /\ last.decision = "Update") => last.calls = <<"update">>
           /\ last.decision = "NoOp" => last.calls = <<>>
           /\ Cardinality(Mutations(last.name)) <= 1

DryRunWitness ==
    /\ last.valid
    /\ last.test
    /\ last.decision = "Update"
    /\ last.calls = <<>>
    /\ last.report = "would update"
    /\ last.after = last.before

\* C6: an answer with up = false is updated with the countries it has stored,
\* not the desired ones.
UpFalseKeepsStoredCountries ==
    (HasAnswer(last) /\ WellFormed(First(last)) /\ First(last).up = "false")
        => /\ last.decision = "Update"
           /\ last.answer.up
           /\ last.answer.country.elems = StoredElems(First(last))

UpFalseWitness ==
    /\ HasAnswer(last)
    /\ WellFormed(First(last))
    /\ First(last).up = "false"
    /\ IPMatches(last)
    /\ StoredElems(First(last)) # last.countries
    /\ last.calls = <<"update">>
    /\ last.ok

\* C7: malformed stored country data forces an update that uses the desired
\* list, whatever the stored up flag.
MalformedCountriesUseDesired ==
    (HasAnswer(last) /\ Malformed(First(last)))
        => /\ last.decision = "Update"
           /\ last.answer.country.elems = last.countries
           /\ pc # "crashed"

\* C9: after a successful Create of a missing record, processing the name
\* again with the same IP and desired countries, reading the record the
\* Create produced, is a NoOp.
CreateIsIdempotent ==
    (/\ prev.valid
     /\ prev.getErr = "notfound"
     /\ prev.decision = "Create"
     /\ prev.calls = <<"create">>
     /\ prev.ok
     /\ Found(last)
     /\ last.name = prev.name
     /\ last.ip = prev.ip
     /\ last.countries = prev.countries
     /\ last.before = prev.after)
        => /\ last.decision = "NoOp"
           /\ last.calls = <<>>
           /\ last.after = prev.after

CreateIdempotentWitness ==
    /\ prev.valid
    /\ prev.getErr = "notfound"
    /\ prev.decision = "Create"
    /\ prev.calls = <<"create">>
    /\ prev.ok
    /\ Found(last)
    /\ last.name = prev.name
    /\ last.ip = prev.ip
    /\ last.countries = prev.countries
    /\ last.before = prev.after
    /\ last.decision = "NoOp"

\* the record a converged name has: its answer holds the current IP, up, desired
Settled(record, ip, desired) ==
    /\ record.exists
    /\ Len(record.answers) >= 1
    /\ record.answers[1] = Answer(<<ip>>, TRUE, "true", AnySlice(StrItems(desired)))

\* C10: with a fixed IP and desired list, test mode off and every call
\* succeeding, at most two consecutive runs write: a run that reads the
\* settled record writes nothing and leaves it, a run that writes nothing
\* found the record settled and every later run writes nothing, and after
\* two writing runs in a row the record is settled.
ConvergesInTwoRuns ==
    /\ (last.valid /\ Settled(last.before, last.ip, last.countries))
           => /\ last.decision = "NoOp"
              /\ last.calls = <<>>
              /\ last.after = last.before
    /\ (last.valid /\ last.calls = <<>>)
           => /\ Settled(last.after, last.ip, last.countries)
              /\ zoneRecords[last.name] = last.after
    /\ (prev.valid /\ last.valid /\ prev.calls = <<>>) => last.calls = <<>>
    /\ (prev.valid /\ last.valid /\ prev.calls # <<>> /\ last.calls # <<>>)
           => /\ Settled(last.after, last.ip, last.countries)
              /\ zoneRecords[last.name] = last.after
    /\ (prev.valid /\ last.valid)
           => /\ last.name = prev.name
              /\ last.ip = prev.ip
              /\ last.countries = prev.countries
              /\ last.before = prev.after
              /\ ~last.test
              /\ last.calls # <<>> => last.ok

\* one run is not always enough: two runs in a row wrote
TwoWritingRuns ==
    /\ prev.valid
    /\ last.valid
    /\ prev.calls = <<"update">>
    /\ last.calls = <<"update">>
    /\ ~Settled(prev.after, prev.ip, prev.countries)
    /\ Settled(last.after, last.ip, last.countries)

HostKey(d, h) == <<config[d].Hosts[h].Name, d>>

Logged(ev, key) == \E e \in log : e.ev = ev /\ e.key = key

Failed(ev, key) == Event(ev, key, FALSE) \in log

Touched(name) == \E e \in log : e.ev \in {"get", "create", "update"} /\ e.key = name

SomeFailure == \E e \in log : e.ev \in {"zone", "ip", "create", "update"} /\ ~e.ok

\* every domain was looked up, every host of a loaded zone was resolved, and
\* every subdomain of a resolved host was processed
AllProcessed ==
    \A d \in DOMAIN config :
        /\ Logged("zone", <<d>>)
        /\ ~Failed("zone", <<d>>) =>
              \A h \in 1..Len(config[d].Hosts) :
                  /\ Logged("ip", HostKey(d, h))
                  /\ ~Failed("ip", HostKey(d, h)) =>
                        \A n \in HostNames(config, d, h) : Logged("get", n)

\* C8: a failed zone lookup skips the domain's hosts, a failed IP resolution
\* skips the host's subdomains, a failed write touches only its subdomain;
\* whenever a run with such a failure is over, everything else was processed
\* and the run completed.
FailuresAreIsolated ==
    /\ \A d \in DOMAIN config :
          Failed("zone", <<d>>) =>
              \A h \in 1..Len(config[d].Hosts) :
                  /\ ~Logged("ip", HostKey(d, h))
                  /\ \A n \in HostNames(config, d, h) : ~Touched(n)
    /\ \A d \in DOMAIN config : \A h \in 1..Len(config[d].Hosts) :
          Failed("ip", HostKey(d, h)) =>
              \A n \in HostNames(config, d, h) : ~Touched(n)
    /\ (SomeFailure /\ pc \in {"done", "crashed"})
          => pc = "done" /\ AllProcessed

====
